---- MODULE Spec2Model ----
(***************************************************************************)
(* Foodie: the food-list screen (two versions of it: Page, which embeds    *)
(* the chat panel, and FoodList, which does not) and the ChatBot panel.    *)
(* React state hooks are the variables; every event handler, and every     *)
(* continuation of an async function after an await, is one action.  A     *)
(* handler runs to its next await without interleaving (single JS thread), *)
(* and the component re-renders before the next event is delivered.        *)
(***************************************************************************)
EXTENDS Integers, Sequences, FiniteSets, TLC

\* ---------------------------------------------------------------- bounds
MaxInFlight == 2      \* fetchFoodItems calls in flight at once
MaxMessages == 5      \* longest transcript (welcome + two turns)
MaxRequests == 2      \* model requests in flight at once
MaxTextLen == 6       \* longest text given to the formatting functions

VARIABLES
    variant,      \* which version of the list screen is mounted
    mounted,      \* whether the mount effect (useEffect, []) has run
    foodItems,    \* useState<FoodItem[]>([])
    loading,      \* useState(true)
    error,        \* useState<string | null>(null)
    refreshing,   \* useState(false)
    fetches,      \* fetchFoodItems calls suspended at an await, in start order
    isVisible,    \* ChatBot: useState(false)
    messages,     \* ChatBot: useState<Message[]>([welcome])
    inputText,    \* ChatBot: useState('')
    isLoading,    \* ChatBot: useState(false)
    requests,     \* sendMessage calls suspended at an await, in start order
    lastEvent,    \* history: the handler or continuation that ran last
    recording     \* history: whether a fetch records the array it started from

listVars == <<variant, mounted, foodItems, loading, error, refreshing, fetches,
              recording>>
chatVars == <<isVisible, messages, inputText, isLoading, requests>>
vars == <<variant, mounted, foodItems, loading, error, refreshing, fetches,
          isVisible, messages, inputText, isLoading, requests, lastEvent,
          recording>>

\* ------------------------------------------------------------ list: data
\* A FoodItem is represented by its id; the other fields are carried along
\* untouched by every operation modelled here.
\* The arrays the data service answers with here: empty, one record, two
\* records in id order, two records out of id order, the same id twice.
DataArrays == {<<>>, <<1>>, <<1, 2>>, <<2, 1>>, <<1, 1>>}

\* string | null
Null == [isNull |-> TRUE, text |-> <<>>]
Str(t) == [isNull |-> FALSE, text |-> t]

\* A value that reaches the catch block: an Error instance or anything else.
ErrValues == [isError : BOOLEAN, message : {<<"timeout">>}]
NoErr == [isError |-> FALSE, message |-> <<>>]

\* What an awaited data-service call produces.
Outcomes ==
    [kind : {"data"}, data : DataArrays, err : {NoErr}]
    \cup [kind : {"null"}, data : {<<>>}, err : {NoErr}]
    \cup [kind : {"error", "throw"}, data : {<<>>}, err : ErrValues]

\* The history record: which step ran last.  For a step of a fetch: its kind
\* ("mount", "retry", "refresh"), the array the step is about (the answer of
\* a fetch that succeeded, the array a failed fetch had started from) and
\* the array stored just before the step; for a failed fetch also the
\* message of the caught error.  For a step of a chat submission:
\* the transcript and the input text when it was submitted, and for a
\* failed model request the value that was thrown.  For a fetch that
\* succeeded, raced tells whether another fetch had succeeded while this
\* one was in flight (see Raced).
NoEvent ==
    [op |-> "init", kind |-> "none", items |-> <<>>, prev |-> <<>>,
     base |-> <<>>, text |-> <<>>, err |-> NoErr, raced |-> "no"]
Event(op, kind, items, prev) ==
    [op |-> op, kind |-> kind, items |-> items, prev |-> prev,
     base |-> <<>>, text |-> <<>>, err |-> NoErr, raced |-> "no"]

\* ---------------------------------------------------------- list: render
\* Which of the four returns of the component renders.
ViewOf(l, e, r, items) ==
    IF l /\ ~r THEN "loader"
    ELSE IF ~e.isNull /\ e.text # <<>> THEN "error"
    ELSE IF Len(items) > 0 THEN "list"
    ELSE "empty"

View == ViewOf(loading, error, refreshing, foodItems)

\* The items on screen: the FlatList exists only in the last return, and
\* only for a non-empty array.
DisplayedItems == IF View = "list" THEN foodItems ELSE <<>>

\* The error string on screen: only the error return renders it.
DisplayedError == IF View = "error" THEN error ELSE Null

\* <ChatBot foodItems={foodItems} /> is a child of the last return of Page
\* only; FoodList has no chat panel.
ChatMountedIn(v, view) == v = "Page" /\ view \in {"list", "empty"}

ChatMounted == ChatMountedIn(variant, View)

\* ----------------------------------------------------------- chat: data
Whitespace == {" ", "\n"}

\* String.prototype.trim
RECURSIVE TrimStart(_)
TrimStart(s) ==
    IF s # <<>> /\ Head(s) \in Whitespace THEN TrimStart(Tail(s)) ELSE s

RECURSIVE TrimEnd(_)
TrimEnd(s) ==
    IF s # <<>> /\ s[Len(s)] \in Whitespace
    THEN TrimEnd(SubSeq(s, 1, Len(s) - 1)) ELSE s

Trim(s) == TrimEnd(TrimStart(s))

\* What the user may have typed into the TextInput.
Inputs == {<<>>, <<" ", "\n">>, <<" ", "b", " ">>}

\* What the language model may answer, and what a failed request throws.
Replies == {<<"o", "k">>}
ModelErrValues == [isError : BOOLEAN, message : {<<"q", "u", "o", "t", "a">>}]

WelcomeMessage == [text |-> <<>>, isUser |-> FALSE, isWelcomeMessage |-> TRUE]
Message(text, isUser) ==
    [text |-> text, isUser |-> isUser, isWelcomeMessage |-> FALSE]

\* A variant of AppendMessage that writes over the last message.
OverwriteLast(prev, m) == [prev EXCEPT ![Len(prev)] = m]

\* setMessages(prev => [...prev, m])
AppendMessage(prev, m) == Append(prev, m)

\* The state a freshly mounted ChatBot starts in (its useState arguments).
ChatInit ==
    /\ isVisible = FALSE
    /\ messages = <<WelcomeMessage>>
    /\ inputText = <<>>
    /\ isLoading = FALSE
    /\ requests = <<>>

\* The same state, as the successor state of a step that unmounts ChatBot:
\* the component's hooks are destroyed and its suspended sendMessage calls
\* can no longer change anything; a later mount starts from useState again.
ChatReset ==
    /\ isVisible' = FALSE
    /\ messages' = <<WelcomeMessage>>
    /\ inputText' = <<>>
    /\ isLoading' = FALSE
    /\ requests' = <<>>

\* The chat panel across a re-render of the list screen.
ChatAfterRender ==
    IF ChatMountedIn(variant, ViewOf(loading', error', refreshing', foodItems'))
    THEN UNCHANGED chatVars
    ELSE ChatReset

Remove(s, i) == SubSeq(s, 1, i - 1) \o SubSeq(s, i + 1, Len(s))

\* ------------------------------------------------------- list: operations
\* The state after the first render: the useState arguments of the screen
\* and of the chat panel, no call in flight.
Mounting ==
    /\ variant \in {"Page", "FoodList"}
    /\ mounted = FALSE
    /\ foodItems = <<>>
    /\ loading = TRUE
    /\ error = Null
    /\ refreshing = FALSE
    /\ fetches = <<>>
    /\ ChatInit
    /\ lastEvent = NoEvent

Init == Mounting /\ recording = FALSE

\* The same program; each fetch also records the array it started from.
ListInit == Mounting /\ recording = TRUE

\* Page awaits a table check and then the query; FoodList only the query.
FirstAwait(v) == IF v = "Page" THEN "tableCheck" ELSE "query"

\* fetchFoodItems() up to its first await.  startItems and raced are
\* history (kept only when recording): the array as it was when this call
\* started, and whether another call has succeeded since.
FetchFoodItemsCall(kind) ==
    fetches' = Append(fetches,
        [pc |-> FirstAwait(variant), kind |-> kind,
         startItems |-> IF recording THEN foodItems ELSE <<>>,
         raced |-> "no"])

\* The calls still in flight after call i got its array: each of them now
\* has been "overtaken" (call i was started after it) or "followed" (call i
\* was started before it).
Raced(rest, i) ==
    [k \in 1..Len(rest) |->
        [rest[k] EXCEPT !.raced = IF k < i THEN "overtaken" ELSE "followed"]]

\* useEffect(() => { fetchFoodItems(); }, [])
MountEffect ==
    /\ ~mounted
    /\ mounted' = TRUE
    /\ FetchFoodItemsCall("mount")
    /\ UNCHANGED <<variant, foodItems, loading, error, refreshing, recording>>
    /\ UNCHANGED chatVars
    /\ lastEvent' = Event("fetchStarted", "mount", <<>>, <<>>)

\* onPress={fetchFoodItems}: the Retry button of the error return and the
\* Refresh button of the empty list.  Neither flag is set.
RetryPress ==
    /\ mounted
    /\ View \in {"error", "empty"}
    /\ Len(fetches) < MaxInFlight
    /\ FetchFoodItemsCall("retry")
    /\ UNCHANGED <<variant, mounted, foodItems, loading, error, refreshing, recording>>
    /\ UNCHANGED chatVars
    /\ lastEvent' = Event("fetchStarted", "retry", <<>>, <<>>)

\* A variant of OnRefresh whose gesture is available in every view, the
\* loader included.
OnRefreshAnyView ==
    /\ mounted
    /\ ~refreshing
    /\ Len(fetches) < MaxInFlight
    /\ refreshing' = TRUE
    /\ FetchFoodItemsCall("refresh")
    /\ UNCHANGED <<variant, mounted, foodItems, loading, error, recording>>
    /\ ChatAfterRender
    /\ lastEvent' = Event("fetchStarted", "refresh", <<>>, <<>>)

\* onRefresh: the pull-to-refresh gesture of the FlatList's RefreshControl,
\* which does not fire again while its refreshing prop is true.
OnRefresh ==
    /\ mounted
    /\ View = "list"
    /\ ~refreshing
    /\ Len(fetches) < MaxInFlight
    /\ refreshing' = TRUE
    /\ FetchFoodItemsCall("refresh")
    /\ UNCHANGED <<variant, mounted, foodItems, loading, error, recording>>
    /\ ChatAfterRender
    /\ lastEvent' = Event("fetchStarted", "refresh", <<>>, <<>>)

\* Page: the table check answered without an error; the query is sent.
TableCheckResume(i) ==
    /\ fetches[i].pc = "tableCheck"
    /\ fetches' = [fetches EXCEPT ![i].pc = "query"]
    /\ UNCHANGED <<variant, mounted, foodItems, loading, error, refreshing, recording>>
    /\ UNCHANGED chatVars
    /\ lastEvent' = Event("tableChecked", fetches[i].kind, <<>>, <<>>)

\* A variant of ItemsOnSuccess that merges: the answer, then the stored
\* items the answer does not contain.
MergeOnSuccess(v, prev, o) ==
    IF o.kind = "data"
    THEN o.data \o SelectSeq(prev, LAMBDA x : \A k \in 1..Len(o.data) : o.data[k] # x)
    ELSE IF v = "Page" THEN <<>> ELSE prev

\* The array stored when the query answers without an error: setFoodItems
\* of the answer as it came; for a null answer Page stores [] and FoodList
\* stores nothing.
ItemsOnSuccess(v, prev, o) ==
    IF o.kind = "data" THEN o.data
    ELSE IF v = "Page" THEN <<>> ELSE prev

\* The error after the success path: no setError call is on it.
ErrorOnSuccess(prev) == prev

\* A variant of ItemsOnFailure that empties the list.
ClearOnFailure(prev) == <<>>

\* The array after the catch block: no setFoodItems call is in it.
ItemsOnFailure(prev) == prev

\* What the catch block receives: Page wraps a table-check error in a new
\* Error; everything else arrives as it was thrown.
Caught(pc, o) ==
    IF pc = "tableCheck" /\ o.kind = "error"
    THEN [isError |-> TRUE,
          message |-> <<"Database table error: ">> \o o.err.message]
    ELSE o.err

\* The message the catch block passes to setError.
ErrorOnFailure(v, err) ==
    IF v = "Page"
    THEN IF err.isError
         THEN Str(<<"Error: ">> \o err.message)
         ELSE Str(<<"Failed to load food items. Please check your database connection.">>)
    ELSE Str(<<"Failed to load food items. Please try again later.">>)

\* A variant of FetchSucceeds that drops the answer of a call that a
\* later call has overtaken.
FetchSucceedsUnlessOvertaken(i, o) ==
    /\ fetches[i].pc = "query"
    /\ o.kind \in {"data", "null"}
    /\ foodItems' = IF fetches[i].raced = "overtaken" THEN foodItems
                    ELSE ItemsOnSuccess(variant, foodItems, o)
    /\ error' = ErrorOnSuccess(error)
    /\ loading' = FALSE
    /\ refreshing' = FALSE
    /\ fetches' = IF recording /\ o.kind = "data"
                  THEN Raced(Remove(fetches, i), i) ELSE Remove(fetches, i)
    /\ UNCHANGED <<variant, mounted, recording>>
    /\ ChatAfterRender
    /\ lastEvent' = [Event(IF o.kind = "data" THEN "fetchSucceeded"
                           ELSE "fetchNoData", fetches[i].kind, o.data,
                           IF recording THEN foodItems ELSE <<>>)
                     EXCEPT !.raced = fetches[i].raced]

\* The query answered without an error: success path, then finally.
FetchSucceeds(i, o) ==
    /\ fetches[i].pc = "query"
    /\ o.kind \in {"data", "null"}
    /\ foodItems' = ItemsOnSuccess(variant, foodItems, o)
    /\ error' = ErrorOnSuccess(error)
    /\ loading' = FALSE
    /\ refreshing' = FALSE
    /\ fetches' = IF recording /\ o.kind = "data"
                  THEN Raced(Remove(fetches, i), i) ELSE Remove(fetches, i)
    /\ UNCHANGED <<variant, mounted, recording>>
    /\ ChatAfterRender
    /\ lastEvent' = [Event(IF o.kind = "data" THEN "fetchSucceeded"
                           ELSE "fetchNoData", fetches[i].kind, o.data,
                           IF recording THEN foodItems ELSE <<>>)
                     EXCEPT !.raced = fetches[i].raced]

\* An await answered with an error or threw: catch block, then finally.
FetchFails(i, o) ==
    /\ fetches[i].pc \in {"tableCheck", "query"}
    /\ o.kind \in {"error", "throw"}
    /\ foodItems' = ItemsOnFailure(foodItems)
    /\ error' = ErrorOnFailure(variant, Caught(fetches[i].pc, o))
    /\ loading' = FALSE
    /\ refreshing' = FALSE
    /\ fetches' = Remove(fetches, i)
    /\ UNCHANGED <<variant, mounted, recording>>
    /\ ChatAfterRender
    /\ lastEvent' = [Event("fetchFailed", fetches[i].kind,
                           fetches[i].startItems,
                           IF recording THEN foodItems ELSE <<>>)
                     EXCEPT !.text = Caught(fetches[i].pc, o).message]

ListNext ==
    \/ MountEffect
    \/ RetryPress
    \/ OnRefresh
    \/ \E i \in 1..Len(fetches) : TableCheckResume(i)
    \/ \E i \in 1..Len(fetches), o \in Outcomes : FetchSucceeds(i, o)
    \/ \E i \in 1..Len(fetches), o \in Outcomes : FetchFails(i, o)

ListSpec == ListInit /\ [][ListNext]_vars

\* ------------------------------------------------------- chat: operations
ChatEvent(op, base, text) ==
    [op |-> op, kind |-> "none", items |-> <<>>, prev |-> <<>>,
     base |-> base, text |-> text, err |-> NoErr, raced |-> "no"]

\* One line of foodItemsString per item, in the array's order; the item's
\* fields are formatted into the line (here: the id that stands for them).
ItemLine(item) == [name |-> item, rest |-> " (Price: , Rating: , , kcal)"]

\* A variant of GeneratePrompt whose closure still holds the empty foodItems
\* of the first render.
PromptOfFirstRender(items, userMessage) ==
    [preamble |-> "You are a helpful food assistant.",
     foodItemsString |-> <<>>,
     question |-> userMessage]

\* generatePrompt(userMessage), reading the foodItems prop of the render
\* whose sendMessage closure is running.
GeneratePrompt(items, userMessage) ==
    [preamble |-> "You are a helpful food assistant.",
     foodItemsString |-> [i \in 1..Len(items) |-> ItemLine(items[i])],
     question |-> userMessage]

\* A variant of BlankInput that does not trim.
EmptyInput(text) == text = <<>>

\* if (!inputText.trim()) return;
BlankInput(text) == Trim(text) = <<>>

\* A variant of UserMessage that keeps the text as typed.
RawUserMessage(text) == text

\* const userMessage = inputText.trim();
UserMessage(text) == Trim(text)

\* A variant of SendEnabled: the button is never disabled.
AlwaysEnabled == TRUE

\* The Send button: disabled={isLoading}; a disabled touchable does not
\* call onPress.
SendEnabled == ~isLoading

\* A variant of LoadingAfterSend: the pending flag is not set.
NotLoadingAfterSend == FALSE

\* setIsLoading(true)
LoadingAfterSend == TRUE

\* The text of the assistant message the catch block appends.
ErrorReply(err) ==
    <<"E", "r", "r", "o", "r", ":", " ">>
    \o (IF err.isError THEN err.message
        ELSE <<"Failed to get response from AI. Please try again.">>)

\* The floating button: setIsVisible(true).
OpenChat ==
    /\ ChatMounted
    /\ ~isVisible
    /\ isVisible' = TRUE
    /\ UNCHANGED <<messages, inputText, isLoading, requests>>
    /\ UNCHANGED listVars
    /\ lastEvent' = ChatEvent("opened", <<>>, <<>>)

\* The close button and onRequestClose: setIsVisible(false).
CloseChat ==
    /\ ChatMounted
    /\ isVisible
    /\ isVisible' = FALSE
    /\ UNCHANGED <<messages, inputText, isLoading, requests>>
    /\ UNCHANGED listVars
    /\ lastEvent' = ChatEvent("closed", <<>>, <<>>)

\* onChangeText={setInputText}
ChangeText(t) ==
    /\ ChatMounted
    /\ isVisible
    /\ t # inputText
    /\ inputText' = t
    /\ UNCHANGED <<isVisible, messages, isLoading, requests>>
    /\ UNCHANGED listVars
    /\ lastEvent' = ChatEvent("typed", <<>>, <<>>)

\* sendMessage() up to its first await.  In the request record, base and
\* typed are history: the transcript and the input when the call started.
SendMessage ==
    IF BlankInput(inputText)
    THEN /\ UNCHANGED chatVars
         /\ lastEvent' = ChatEvent("sendBlank", messages, inputText)
    ELSE /\ Len(messages) + Len(requests) + 2 <= MaxMessages
         /\ Len(requests) < MaxRequests
         /\ messages' = AppendMessage(messages,
                                     Message(UserMessage(inputText), TRUE))
         /\ inputText' = <<>>
         /\ isLoading' = LoadingAfterSend
         /\ requests' = Append(requests,
                [pc |-> "generateContent",
                 prompt |-> GeneratePrompt(foodItems, UserMessage(inputText)),
                 base |-> messages,
                 typed |-> inputText])
         /\ UNCHANGED isVisible
         /\ lastEvent' = ChatEvent("sendAccepted", messages, inputText)

\* A press on the Send button.
PressSend ==
    /\ ChatMounted
    /\ isVisible
    /\ IF SendEnabled
       THEN SendMessage
       ELSE /\ UNCHANGED chatVars
            /\ lastEvent' = ChatEvent("sendDisabled", messages, inputText)
    /\ UNCHANGED listVars

\* await model.generateContent(prompt) resolved.
GenerateContentResolves(j) ==
    /\ requests[j].pc = "generateContent"
    /\ requests' = [requests EXCEPT ![j].pc = "response"]
    /\ UNCHANGED <<isVisible, messages, inputText, isLoading>>
    /\ UNCHANGED listVars
    /\ lastEvent' = ChatEvent("generated", <<>>, <<>>)

\* A variant of ModelReplies without the finally block: the pending flag
\* is cleared on failure only.
ModelRepliesStaysPending(j, text) ==
    /\ requests[j].pc = "response"
    /\ messages' = AppendMessage(messages, Message(text, FALSE))
    /\ requests' = Remove(requests, j)
    /\ UNCHANGED <<isVisible, inputText, isLoading>>
    /\ UNCHANGED listVars
    /\ lastEvent' = ChatEvent("replied", requests[j].base, requests[j].typed)

\* await result.response resolved and response.text() returned: the reply
\* is appended, then finally.
ModelReplies(j, text) ==
    /\ requests[j].pc = "response"
    /\ messages' = AppendMessage(messages, Message(text, FALSE))
    /\ isLoading' = FALSE
    /\ requests' = Remove(requests, j)
    /\ UNCHANGED <<isVisible, inputText>>
    /\ UNCHANGED listVars
    /\ lastEvent' = ChatEvent("replied", requests[j].base, requests[j].typed)

\* A variant of ModelFails whose catch block sends the prompt again.
RetryOnFailure(j, err) ==
    /\ requests[j].pc \in {"generateContent", "response"}
    /\ messages' = AppendMessage(messages, Message(ErrorReply(err), FALSE))
    /\ isLoading' = FALSE
    /\ requests' = [requests EXCEPT ![j].pc = "generateContent"]
    /\ UNCHANGED <<isVisible, inputText>>
    /\ UNCHANGED listVars
    /\ lastEvent' = [ChatEvent("modelFailed", requests[j].base,
                               requests[j].typed) EXCEPT !.err = err]

\* Either await rejected, or response.text() threw: catch, then finally.
ModelFails(j, err) ==
    /\ requests[j].pc \in {"generateContent", "response"}
    /\ messages' = AppendMessage(messages, Message(ErrorReply(err), FALSE))
    /\ isLoading' = FALSE
    /\ requests' = Remove(requests, j)
    /\ UNCHANGED <<isVisible, inputText>>
    /\ UNCHANGED listVars
    /\ lastEvent' = [ChatEvent("modelFailed", requests[j].base,
                               requests[j].typed) EXCEPT !.err = err]

ChatNext ==
    \/ OpenChat
    \/ CloseChat
    \/ \E t \in Inputs : ChangeText(t)
    \/ PressSend
    \/ \E j \in 1..Len(requests) : GenerateContentResolves(j)
    \/ \E j \in 1..Len(requests), text \in Replies : ModelReplies(j, text)
    \/ \E j \in 1..Len(requests), err \in ModelErrValues : ModelFails(j, err)

Next ==
    \/ MountEffect
    \/ RetryPress
    \/ OnRefresh
    \/ \E i \in 1..Len(fetches) : TableCheckResume(i)
    \/ \E i \in 1..Len(fetches), o \in Outcomes : FetchSucceeds(i, o)
    \/ \E i \in 1..Len(fetches), o \in Outcomes : FetchFails(i, o)
    \/ OpenChat
    \/ CloseChat
    \/ \E t \in Inputs : ChangeText(t)
    \/ PressSend
    \/ \E j \in 1..Len(requests) : GenerateContentResolves(j)
    \/ \E j \in 1..Len(requests), text \in Replies : ModelReplies(j, text)
    \/ \E j \in 1..Len(requests), err \in ModelErrValues : ModelFails(j, err)

Spec == Init /\ [][Next]_vars

\* The two awaits of sendMessage: the promise of generateContent and the
\* promise result.response.
GenerateContentSettles ==
    \E j \in 1..Len(requests) :
        \/ GenerateContentResolves(j)
        \/ \E err \in ModelErrValues :
              requests[j].pc = "generateContent" /\ ModelFails(j, err)

ResponseSettles ==
    \E j \in 1..Len(requests) :
        \/ \E text \in Replies : ModelReplies(j, text)
        \/ \E err \in ModelErrValues :
              requests[j].pc = "response" /\ ModelFails(j, err)

\* The chat panel just mounted over a loaded list with no fetch in flight:
\* a state of Spec.
ChatOverList ==
    /\ variant = "Page"
    /\ mounted = TRUE
    /\ foodItems \in {<<1>>, <<1, 2>>}
    /\ loading = FALSE
    /\ error = Null
    /\ refreshing = FALSE
    /\ fetches = <<>>
    /\ recording = FALSE
    /\ ChatInit
    /\ lastEvent = Event("fetchSucceeded", "mount", foodItems, <<>>)

\* The chat panel with an endpoint that answers: a promise sendMessage
\* awaits is settled, one way or the other, and the continuation then runs.
LiveSpec ==
    /\ ChatOverList
    /\ [][ChatNext]_vars
    /\ WF_vars(GenerateContentSettles)
    /\ WF_vars(ResponseSettles)

\* -------------------------------------------------------- chat: rendering
Marker == <<"*", "*">>
Newline == <<"\n">>

\* String.prototype.indexOf(sep), 1-based; 0 when sep does not occur.
IndexOf(s, sep) ==
    LET At(k) == SubSeq(s, k, k + Len(sep) - 1) = sep
        Hits == {k \in 1..(Len(s) - Len(sep) + 1) : At(k)}
    IN IF Hits = {} THEN 0
       ELSE CHOOSE k \in Hits : \A h \in Hits : k <= h

\* String.prototype.split(sep) for a non-empty separator: the pieces between
\* the occurrences of sep found from left to right, empty pieces included.
RECURSIVE Split(_, _)
Split(s, sep) ==
    LET k == IndexOf(s, sep)
    IN IF k = 0 THEN <<s>>
       ELSE <<SubSeq(s, 1, k - 1)>>
            \o Split(SubSeq(s, k + Len(sep), Len(s)), sep)

\* A variant of IsBold with the parity the wrong way round.
IsBoldEven(partIndex) == partIndex % 2 = 0

\* const isBold = partIndex % 2 === 1;   (partIndex counts from 0)
IsBold(partIndex) == partIndex % 2 = 1

\* parts.map((part, partIndex) => <Text style={bold or plain}>{part}</Text>)
Parts(line) ==
    LET parts == Split(line, Marker)
    IN [p \in 1..Len(parts) |-> [text |-> parts[p], isBold |-> IsBold(p - 1)]]

\* formatResponseText(text): one element per line, holding the line's parts
\* and the newline that follows every line but the last.
FormatResponseText(text) ==
    LET lines == Split(text, Newline)
    IN [l \in 1..Len(lines) |->
          [parts |-> Parts(lines[l]),
           end |-> IF l - 1 < Len(lines) - 1 THEN Newline ELSE <<>>]]

\* formatText(item.name) of the list screen: the same split of one string.
FormatText(text) == Parts(text)

\* The bubbles of the transcript: the welcome card for the welcome message,
\* formatResponseText(message.text) for every other message.
RenderedMessages ==
    [k \in 1..Len(messages) |->
        IF messages[k].isWelcomeMessage THEN <<>>
        ELSE FormatResponseText(messages[k].text)]

\* The texts the formatting functions are checked on: every string of at
\* most MaxTextLen characters over a letter, the asterisk and the newline.
TextChars == {"a", "*", "\n"}
Texts == UNION {[1..n -> TextChars] : n \in 0..MaxTextLen}

\* The chat panel open over a loaded list, the first submission at its
\* second await: a state of Spec, from which the model may answer with any
\* of Texts.
FormatInit ==
    /\ variant = "Page"
    /\ mounted = TRUE
    /\ foodItems = <<1, 2>>
    /\ loading = FALSE
    /\ error = Null
    /\ refreshing = FALSE
    /\ fetches = <<>>
    /\ recording = FALSE
    /\ isVisible = TRUE
    /\ messages = <<WelcomeMessage, Message(<<"b">>, TRUE)>>
    /\ inputText = <<>>
    /\ isLoading = TRUE
    /\ requests = <<[pc |-> "response",
                     prompt |-> GeneratePrompt(<<1, 2>>, <<"b">>),
                     base |-> <<WelcomeMessage>>,
                     typed |-> <<" ", "b", " ">>]>>
    /\ lastEvent = ChatEvent("generated", <<>>, <<>>)

FormatNext ==
    \E j \in 1..Len(requests), text \in Texts : ModelReplies(j, text)

FormatSpec == FormatInit /\ [][FormatNext]_vars

\* ------------------------------------------------------------ properties
StrictlyAscending(s) == \A k \in 1..(Len(s) - 1) : s[k] < s[k + 1]

FetchCompletedOk == lastEvent.op \in {"fetchSucceeded", "fetchNoData"}

\* C1: after any fetch (mount, retry or pull-to-refresh) has completed
\* successfully the list error is null, whatever it was before.
C1_SuccessClearsError == FetchCompletedOk => error.isNull

\* C2: once a retry started from the error screen has succeeded, the error
\* screen is no longer shown and the fetched items are the ones displayed.
C2_RetryLeavesErrorScreen ==
    (lastEvent.op = "fetchSucceeded" /\ lastEvent.kind = "retry")
        => (View # "error" /\ DisplayedItems = lastEvent.items)

\* C3 as claimed: after a failed fetch the sequence is what it was when that
\* fetch started, and the error is a non-null message.
C3_ItemsAsAtFetchStart ==
    lastEvent.op = "fetchFailed"
        => (foodItems = lastEvent.items /\ ~error.isNull)

\* C3 as amended: a failed fetch leaves the sequence exactly as it was just
\* before the failure was handled (empty if no fetch ever succeeded; other
\* than at the fetch's start only if another fetch succeeded meanwhile),
\* and sets the error to a non-null, non-empty message of this failure (the
\* caught error's message after "Error: ", or a fixed text), whatever the
\* error was before.
C3_FailureKeepsItems ==
    lastEvent.op = "fetchFailed"
        => /\ foodItems = lastEvent.prev
           /\ ~error.isNull
           /\ error.text # <<>>
           /\ error.text \in
                {<<"Error: ">> \o lastEvent.text,
                 <<"Failed to load food items. Please check your database connection.">>,
                 <<"Failed to load food items. Please try again later.">>}

\* A fetch failed although a non-empty list had been stored, and a fetch
\* failed after an earlier failure had already set the error.
C3_Witness ==
    /\ lastEvent.op = "fetchFailed"
    /\ lastEvent.prev = <<1, 2>>
    /\ foodItems = <<1, 2>>
    /\ ~error.isNull

\* C4: when a fetch fails while a non-empty list is on screen, the screen
\* rendered afterwards still shows the same items, together with the error
\* string.
C4_FailureKeepsListOnScreen ==
    [][(View = "list" /\ lastEvent'.op = "fetchFailed")
          => (DisplayedItems' = DisplayedItems /\ ~DisplayedError'.isNull)]_vars

\* C5: after every successful fetch, whatever array the data service
\* answered with, the stored sequence is strictly ascending by id (sorted,
\* no duplicate id).
C5_StoredSortedUnique ==
    lastEvent.op = "fetchSucceeded" => StrictlyAscending(foodItems)

\* C6: after a successful fetch the sequence is exactly the array that fetch
\* returned, and in every state the sequence is the initial empty array or
\* one whole answer of the data service, never a mix of two.
C6_ReplacedWhole ==
    /\ lastEvent.op = "fetchSucceeded" => foodItems = lastEvent.items
    /\ foodItems \in DataArrays

\* A successful fetch replaced a stored list by an answer that shares an
\* item with it and drops another.
C6_Witness ==
    /\ lastEvent.op = "fetchSucceeded"
    /\ lastEvent.prev = <<1, 2>>
    /\ lastEvent.items = <<1>>
    /\ foodItems = <<1>>

SendHandled == lastEvent.op \in {"sendBlank", "sendAccepted"}

RequestCompleted == lastEvent.op \in {"replied", "modelFailed"}

\* C7: at most one language-model request is in flight, and for as long as
\* one is (from the accepted submission until it resolves or rejects) the
\* pending flag is set and the send action is disabled.
C7_OneRequestInFlight ==
    /\ Len(requests) <= 1
    /\ requests # <<>> => (isLoading /\ ~SendEnabled)

\* A press on Send arrived while the request was at its second await.
C7_Witness ==
    /\ Len(requests) = 1
    /\ requests[1].pc = "response"
    /\ lastEvent.op = "sendDisabled"

\* C8: a press on Send while a submission is pending changes neither the
\* transcript nor the requests in flight, whatever the input text is; so
\* after the welcome message the transcript alternates user, assistant,
\* and its last message is a user message exactly while a request is
\* pending.
C8_PendingSubmitIsNoOp ==
    /\ [](/\ \A k \in 2..Len(messages) : messages[k].isUser <=> (k % 2 = 0)
          /\ Len(requests) = (IF messages[Len(messages)].isUser THEN 1 ELSE 0))
    /\ [][(isLoading /\ (lastEvent'.op = "sendDisabled" \/ SendHandled'))
             => UNCHANGED <<messages, requests, isLoading>>]_vars

\* Non-blank text was submitted during the second turn's pending request
\* and nothing was appended.
C8_Witness ==
    /\ lastEvent.op = "sendDisabled"
    /\ ~BlankInput(lastEvent.text)
    /\ Len(messages) = 4
    /\ Len(requests) = 1

\* C9 as claimed: when the request of an accepted submission completes, the
\* transcript is the one at submission plus a user message whose text is
\* the submitted text, plus one assistant message.
C9_TextAsSubmitted ==
    RequestCompleted
        => /\ Len(messages) = Len(lastEvent.base) + 2
           /\ SubSeq(messages, 1, Len(lastEvent.base)) = lastEvent.base
           /\ messages[Len(messages) - 1] = Message(lastEvent.text, TRUE)
           /\ ~messages[Len(messages)].isUser

\* C9 as amended: ... plus a user message whose text is the submitted text
\* without its leading and trailing whitespace, plus exactly one assistant
\* message holding the model's reply or the error placeholder.
C9_TurnPair ==
    RequestCompleted
        => /\ Len(messages) = Len(lastEvent.base) + 2
           /\ SubSeq(messages, 1, Len(lastEvent.base)) = lastEvent.base
           /\ messages[Len(messages) - 1].isUser
           /\ ~messages[Len(messages) - 1].isWelcomeMessage
           /\ messages[Len(messages) - 1].text = Trim(lastEvent.text)
           /\ messages[Len(messages) - 1].text # <<>>
           /\ ~messages[Len(messages)].isUser
           /\ IF lastEvent.op = "replied"
              THEN messages[Len(messages)].text \in Replies
              ELSE SubSeq(messages[Len(messages)].text, 1, 7)
                       = <<"E", "r", "r", "o", "r", ":", " ">>

\* The second submission, typed with spaces around it, completed with the
\* model's reply.
C9_Witness ==
    /\ lastEvent.op = "replied"
    /\ lastEvent.text = <<" ", "b", " ">>
    /\ Len(lastEvent.base) = 3
    /\ Len(messages) = 5
    /\ messages[5].text = <<"o", "k">>

\* C10: a submission whose text is empty or only whitespace changes nothing:
\* the transcript, the input, the pending flag (false) and the requests in
\* flight (none) are as before.
C10_BlankSubmitChangesNothing ==
    (SendHandled /\ \A k \in 1..Len(lastEvent.text) : lastEvent.text[k] \in Whitespace)
        => /\ messages = lastEvent.base
           /\ inputText = lastEvent.text
           /\ ~isLoading
           /\ requests = <<>>

\* Whitespace-only text was submitted after a completed turn.
C10_Witness ==
    /\ lastEvent.op = "sendBlank"
    /\ lastEvent.text = <<" ", "\n">>
    /\ Len(messages) = 3

IsPrefix(s, t) == Len(s) <= Len(t) /\ SubSeq(t, 1, Len(s)) = s

\* C11: in every state the first element of the transcript is the welcome
\* message (isUser false, isWelcomeMessage true), and every step that leaves
\* the chat panel mounted only appends: the transcript before the step is a
\* prefix of the transcript after it, so no message is removed, replaced or
\* reordered.
C11_AppendOnly ==
    /\ [](/\ Len(messages) >= 1
          /\ ~messages[1].isUser
          /\ messages[1].isWelcomeMessage
          /\ \A k \in 2..Len(messages) : ~messages[k].isWelcomeMessage)
    /\ [][ChatMounted' => IsPrefix(messages, messages')]_vars

\* Two turns were appended after the welcome message, the second one ending
\* with the error placeholder.
C11_Witness ==
    /\ Len(messages) = 5
    /\ messages[1] = WelcomeMessage
    /\ messages[3].text = <<"o", "k">>
    /\ lastEvent.op = "modelFailed"

\* C12: when the model request of a submission fails (either await rejects
\* or reading the reply throws), exactly one assistant message is appended
\* after the user message, its text is "Error: " followed by the description
\* of the failure (the thrown Error's message, or the fixed description for
\* a thrown value that is no Error); the messages before it are unchanged;
\* no request is in flight afterwards, and a request is only ever issued by
\* an accepted submission: the failed one is not retried.
C12_FailureAppendsOneError ==
    /\ [](lastEvent.op = "modelFailed"
            => /\ Len(messages) = Len(lastEvent.base) + 2
               /\ SubSeq(messages, 1, Len(lastEvent.base)) = lastEvent.base
               /\ messages[Len(messages) - 1].isUser
               /\ ~messages[Len(messages)].isUser
               /\ ~messages[Len(messages)].isWelcomeMessage
               /\ messages[Len(messages)].text =
                      <<"E", "r", "r", "o", "r", ":", " ">>
                      \o (IF lastEvent.err.isError THEN lastEvent.err.message
                          ELSE <<"Failed to get response from AI. Please try again.">>)
               /\ requests = <<>>)
    /\ [][requests' \in {requests} \cup {Remove(requests, j) : j \in 1..Len(requests)}
            \/ ~ChatMounted'
            \/ lastEvent'.op \in {"sendAccepted", "generated"}]_vars

\* The request of the second submission failed at its second await with an
\* Error instance, after the first turn had been answered.
C12_Witness ==
    /\ lastEvent.op = "modelFailed"
    /\ lastEvent.err.isError
    /\ Len(lastEvent.base) = 3
    /\ messages[5].text =
          <<"E", "r", "r", "o", "r", ":", " ", "q", "u", "o", "t", "a">>

\* C13: the prompt of an accepted submission lists the items of foodItems as
\* they are at the moment of the submission, in their order, followed by
\* the submitted question; and for as long as the request is in flight its
\* prompt stays the same, also across a fetch that replaces the list.  So
\* a new list is seen by later submissions only.
C13_PromptSnapshot ==
    /\ [](lastEvent.op = "sendAccepted"
            => LET p == requests[Len(requests)].prompt
               IN /\ Len(p.foodItemsString) = Len(foodItems)
                  /\ \A i \in 1..Len(foodItems) :
                        p.foodItemsString[i].name = foodItems[i]
                  /\ p.question = Trim(lastEvent.text))
    /\ [][(Len(requests') = Len(requests) /\ lastEvent'.op # "sendAccepted")
            => \A j \in 1..Len(requests) :
                  requests'[j].prompt = requests[j].prompt]_vars

\* A fetch replaced the list [1, 2] by [1] while the request whose prompt
\* lists 1 and 2 was still in flight.
C13_Witness ==
    /\ lastEvent.op = "fetchSucceeded"
    /\ foodItems = <<1>>
    /\ Len(requests) = 1
    /\ Len(requests[1].prompt.foodItemsString) = 2
    /\ requests[1].prompt.foodItemsString[2].name = 2

RECURSIVE JoinWith(_, _)
JoinWith(strings, sep) ==
    IF Len(strings) = 0 THEN <<>>
    ELSE IF Len(strings) = 1 THEN strings[1]
    ELSE strings[1] \o sep \o JoinWith(Tail(strings), sep)

PartTexts(parts) == [p \in 1..Len(parts) |-> parts[p].text]

\* What the claim says about the parts of one string with no newline.
SplitsOnMarker(line, parts) ==
    /\ Len(parts) >= 1
    /\ \A p \in 1..Len(parts) :
          /\ parts[p].isBold <=> ((p - 1) % 2 = 1)
          /\ IndexOf(parts[p].text, Marker) = 0
    /\ IndexOf(line, Marker) = 0
          => parts = <<[text |-> line, isBold |-> FALSE]>>
    /\ JoinWith(PartTexts(parts), Marker) = line

\* C14: for every text rendered in the transcript, formatResponseText gives
\* one element per line (no part holds a newline, every line but the last
\* is followed by one); each line's parts are the pieces between its `**`
\* markers, emphasised exactly at the odd 0-based positions; a line with no
\* `**` is one plain part equal to the line; joining the parts with `**`
\* and the lines with newline gives back the text.  formatText does the
\* same with its whole argument as the one line.
C14_SplitAlternates ==
    \A k \in 2..Len(messages) :
        LET text == messages[k].text
            out == RenderedMessages[k]
            lines == [l \in 1..Len(out) |->
                         JoinWith(PartTexts(out[l].parts), Marker)]
        IN /\ JoinWith(lines, Newline) = text
           /\ \A l \in 1..Len(out) :
                 /\ IndexOf(lines[l], Newline) = 0
                 /\ SplitsOnMarker(lines[l], out[l].parts)
                 /\ out[l].end = (IF l < Len(out) THEN Newline ELSE <<>>)
           /\ SplitsOnMarker(text, FormatText(text))

\* The model answered "**a**a": the parts are "", "a", "a" with the middle
\* one emphasised.
C14_Witness ==
    /\ lastEvent.op = "replied"
    /\ messages[3].text = <<"*", "*", "a", "*", "*", "a">>
    /\ RenderedMessages[3] =
          <<[parts |-> <<[text |-> <<>>, isBold |-> FALSE],
                         [text |-> <<"a">>, isBold |-> TRUE],
                         [text |-> <<"a">>, isBold |-> FALSE]>>,
             end |-> <<>>]>>

\* C15: in every state of the list screen, loading and refreshing are not
\* both true.
C15_NotBothFlags == ~(loading /\ refreshing)

\* A pull-to-refresh is in flight, with refreshing set, next to a retry
\* that was started before it and is still in flight.
C15_Witness ==
    /\ refreshing
    /\ ~loading
    /\ Len(fetches) = 2
    /\ fetches[1].kind = "retry"
    /\ fetches[2].kind = "refresh"

\* C16: while a fetch is in flight its own flag is set: loading for a fetch
\* started by the mount effect or by the Retry/Refresh button, refreshing
\* for a fetch started by pull-to-refresh, also after another fetch has
\* completed meanwhile.
C16_FlagWhileInFlight ==
    \A i \in 1..Len(fetches) :
        IF fetches[i].kind = "refresh" THEN refreshing ELSE loading

\* C17: when two fetches were in flight at the same time and both got an
\* array, the sequence stored after the second answer is that second
\* answer, whichever of the two fetches had been started first.
C17_LastAnswerWins ==
    (lastEvent.op = "fetchSucceeded" /\ lastEvent.raced # "no")
        => foodItems = lastEvent.items

\* Of two overlapping fetches the one started first got its answer last:
\* its [2, 1] replaced the [1] that the later fetch had stored.
C17_Witness ==
    /\ lastEvent.op = "fetchSucceeded"
    /\ lastEvent.raced = "overtaken"
    /\ lastEvent.prev = <<1>>
    /\ lastEvent.items = <<2, 1>>
    /\ foodItems = <<2, 1>>
    /\ fetches = <<>>

\* C18: an accepted submission sets the pending flag (send disabled); when
\* its request has resolved or rejected the flag is false and send is
\* enabled again; and, the endpoint settling every request, a pending
\* submission always leaves the pending state.
C18_PendingEnds ==
    /\ [](lastEvent.op = "sendAccepted" => (isLoading /\ ~SendEnabled))
    /\ [](RequestCompleted => (~isLoading /\ SendEnabled))
    /\ (isLoading ~> ~isLoading)

\* The first submission's request was rejected with a value that is no
\* Error, and the panel is ready for the next submission.
C18_Witness ==
    /\ lastEvent.op = "modelFailed"
    /\ ~lastEvent.err.isError
    /\ Len(messages) = 3
    /\ ~isLoading
    /\ SendEnabled
    /\ requests = <<>>

ListEvent ==
    lastEvent.op \in {"fetchStarted", "tableChecked", "fetchSucceeded",
                      "fetchNoData", "fetchFailed"}

\* C19: a step of the list screen (a fetch starting, passing its table
\* check, succeeding or failing) leaves the transcript and the pending flag
\* as they were, and a chat panel that was available before the step is
\* available after it.
C19_ListEventsKeepChat ==
    [][ListEvent' => /\ messages' = messages
                     /\ isLoading' = isLoading
                     /\ ChatMounted => ChatMounted']_vars

====
